---- MODULE Spec2Model ----
(***************************************************************************)
(* The live voice session engine of the Omni app (src/types.ts, component  *)
(* App): connectToLiveAPI, the transport callbacks onopen / onmessage /    *)
(* onclose / onerror, the capture callback, the playback scheduler, the    *)
(* tool-call loop and disconnect.                                          *)
(*                                                                         *)
(* Every action is one JavaScript task (an event handler run to its next   *)
(* real suspension point, with the microtasks it queues on promises that   *)
(* are already settled).  Time is counted in ticks of 100 ms, so the       *)
(* 0.1 s tolerance of source.onended is one tick.                          *)
(***************************************************************************)
EXTENDS Integers, Sequences, FiniteSets, TLC

\* ---------------------------------------------------------------- bounds
MaxSessions == 2   \* connectToLiveAPI invocations in one run
MaxLoopSessions == 1   \* of them, beside the playback and the tool loop
MaxTime     == 3   \* last tick of an output clock
MaxDur      == 1   \* longest decoded buffer, in ticks
MaxSlots    == 2   \* audio chunks scheduled in one run
MaxCalls    == 2   \* function calls received in one run
MaxBatchLen == 2   \* function calls in one tool-call message
MaxDispatch == 1   \* function calls received in one run of the whole manifest
SampleDen   == 5   \* capture samples are the multiples of 1/SampleDen in [-1, 1]
MaxFrameLen == 2   \* samples in one capture frame
MaxMsgs     == 2   \* text messages the assistant sends to the inbox
MaxFrames   == 4   \* capture callbacks whose sends are followed

\* `ctx.currentTime >= nextStartTimeRef.current - 0.1`, in ticks of 100 ms
Eps == 1

\* `s * 0x7FFF`, `s * 0x8000` and `dataInt16[i] / 32768.0`
Int16Max   == 32767
Int16Scale == 32768
\* a Uint8Array element, `/ 255`
ByteMax == 255
\* analyser.frequencyBinCount with fftSize = 32
AnalyserBins == 16
\* `setVolume(avg * 8)`
VolumeBoost == 8

Sessions == 1..MaxSessions

\* the tools whose branch awaits a capability at once, those that await one
\* only when the image or camera frame they work on exists, and those that
\* never suspend
AsyncTools == {"generate_image", "search_web", "think_deeply"}
ImageTools == {"edit_current_image", "see_and_analyze", "analyze_uploaded_image"}
SyncTools  == {"send_text_response", "read_inbox_messages", "edit_text_message"}
\* fc.args: with every required argument ("ok"), an object that lacks one
\* ("missing"), or no object at all ("undef").  env: whether what the branch
\* looks up (stored image, camera frame, inbox message) is there.
CallArgs == {"ok", "missing", "undef"}
CallEnvs == {"has", "none"}
\* the function calls the remote service is taken to issue
CallKinds ==
    { [name |-> "generate_image",     args |-> "ok",    env |-> "none"],
      [name |-> "generate_image",     args |-> "undef", env |-> "none"],
      [name |-> "no_such_tool",       args |-> "ok",    env |-> "none"] }
\* every tool of the manifest, and a name that is not in it
ToolNames == AsyncTools \cup ImageTools \cup SyncTools \cup {"no_such_tool"}
\* the branches that look something up, and those that read fc.args
EnvTools  == ImageTools \cup {"read_inbox_messages", "edit_text_message"}
ArgsTools == ToolNames \ {"read_inbox_messages", "no_such_tool"}
\* every call that some branch tells from the others
AllCallKinds ==
    { k \in [name : ToolNames, args : CallArgs, env : CallEnvs] :
        /\ k.name \notin EnvTools => k.env = "none"
        /\ k.name \notin ArgsTools => k.args = "ok" }

VARIABLES
    apiKey,            \* process.env.API_KEY is set
    mode,              \* AppMode
    connected,         \* the connected flag
    callFilterEnabled, \* the phone-filter setting
    audioContextRef,   \* 0 (null) or the session whose connect created the context
    ctxTime,           \* currentTime of the context audioContextRef holds
    nextStartTimeRef,  \* the scheduler's next available start time
    sessionRef,        \* 0 (null) or the session whose promise it holds
    processorRef,      \* 0 (null) or the session whose ScriptProcessor it holds
    sourceRef,         \* 0 (null) or the session whose MediaStreamSource it holds
    streamRef,         \* 0 (null) or the session whose MediaStream it holds
    bgNoiseRef,        \* a background-noise source is held (and running)
    sess,              \* per session: where its connection stands
    mic,               \* per session: the `stream` local and its tracks
    closeQueued,       \* sessions with a close() queued on the pending promise
    handler,           \* sessions whose processor.onaudioprocess is attached
    srcConn,           \* sessions whose MediaStreamSource is connected
    tornDown,          \* sessions that were started when a disconnect() ran
    slots,             \* the playback slots scheduled on the open output context
    batches,           \* the tool-call messages received so far
    toolLog,           \* the sendToolResponse calls issued so far
    frameLog,          \* the sendRealtimeInput calls issued so far
    filterSeen,        \* per session: the callFilterEnabled its callbacks closed over
    inputData,         \* the samples of the latest capture frame, in 1/SampleDen
    b64Data,           \* the bytes of the latest encoded capture frame
    channelData,       \* the samples of the latest decoded buffer, in 1/32768
    volumeSq,          \* the square of the volume state, as num / den
    settled,           \* sessions whose session promise has resolved
    captured,          \* capture callbacks run so far with a processor in place
    queued,            \* the callbacks waiting on pending session promises
    sent,              \* the frames handed to sendRealtimeInput, in order
    inbox,             \* the inbox state with every queued setInbox applied
    inboxRef           \* inboxRef.current: the inbox of the last render

vars == << apiKey, mode, connected, callFilterEnabled, audioContextRef, ctxTime,
           nextStartTimeRef, sessionRef, processorRef, sourceRef, streamRef,
           bgNoiseRef, sess, mic, closeQueued, handler, srcConn, tornDown,
           slots, batches, toolLog, frameLog, filterSeen,
           inputData, b64Data, channelData, volumeSq,
           settled, captured, queued, sent, inbox, inboxRef >>

refVars   == << audioContextRef, ctxTime, sessionRef, processorRef, sourceRef,
               streamRef, bgNoiseRef >>
audioVars == << nextStartTimeRef, slots >>
toolVars  == << batches, toolLog >>
dataVars  == << inputData, b64Data, channelData, volumeSq >>
orderVars == << settled, captured, queued, sent >>
inboxVars == << inbox, inboxRef >>
MsgIds == 1..MaxMsgs
engineVars == << apiKey, mode, connected, callFilterEnabled, refVars,
                nextStartTimeRef, sess, mic, closeQueued, handler, srcConn,
                tornDown, slots, batches, toolLog, frameLog, filterSeen,
                orderVars, inboxVars >>

Max(a, b) == IF a >= b THEN a ELSE b

Init ==
    /\ apiKey \in BOOLEAN
    /\ mode = "IDLE"
    /\ connected = FALSE
    /\ callFilterEnabled \in BOOLEAN
    /\ audioContextRef = 0
    /\ ctxTime = 0
    /\ nextStartTimeRef = 0
    /\ sessionRef = 0
    /\ processorRef = 0
    /\ sourceRef = 0
    /\ streamRef = 0
    /\ bgNoiseRef = FALSE
    /\ sess = [s \in Sessions |-> "none"]
    /\ mic = [s \in Sessions |-> "none"]
    /\ closeQueued = {}
    /\ handler = {}
    /\ srcConn = {}
    /\ tornDown = {}
    /\ slots = << >>
    /\ batches = << >>
    /\ toolLog = << >>
    /\ frameLog = {}
    /\ filterSeen = [s \in Sessions |-> FALSE]
    /\ inputData = << >>
    /\ b64Data = << >>
    /\ channelData = << >>
    /\ volumeSq = [num |-> 0, den |-> 1]
    /\ settled = {}
    /\ captured = 0
    /\ queued = << >>
    /\ sent = << >>
    /\ inbox = [i \in MsgIds |-> "absent"]
    /\ inboxRef = [i \in MsgIds |-> "absent"]

\* ------------------------------------------------------------ disconnect
\* `sessionRef.current.then(s => s.close && s.close())`: close() runs at once on
\* a resolved promise and changes nothing on a socket that is closing or closed
AfterCloseCall(st) ==
    IF sessionRef # 0 /\ st[sessionRef] = "open"
    THEN [st EXCEPT ![sessionRef] = "closing"]
    ELSE st

\* the same call on a promise that is still pending waits for it to resolve
QueuedCloseCall(st) ==
    IF sessionRef # 0 /\ st[sessionRef] = "connecting"
    THEN closeQueued \cup {sessionRef}
    ELSE closeQueued

\* the callback queued on the session promise runs, if the promise is resolved,
\* as a microtask: after the body of disconnect()
ClosesNow(st) == sessionRef # 0 /\ st[sessionRef] \in {"open", "closing", "closed"}

\* a teardown that rewinds the scheduler
NextStartRewound(next) == 0

\* disconnect() does not write nextStartTimeRef
NextStartAfterTeardown(next) == next

\* a teardown that closes the transport before it releases the audio graph
TeardownStepsCloseFirst(st) ==
    (IF ClosesNow(st) THEN << "close" >> ELSE << >>)
    \o (IF processorRef # 0 THEN << "detach" >> ELSE << >>)
    \o (IF sourceRef # 0 THEN << "source" >> ELSE << >>)
    \o (IF streamRef # 0 THEN << "stream" >> ELSE << >>)
    \o (IF bgNoiseRef THEN << "noise" >> ELSE << >>)
    \o (IF audioContextRef # 0 THEN << "context" >> ELSE << >>)

\* the steps of disconnect() that take effect, in the order they do
TeardownSteps(st) ==
    (IF processorRef # 0 THEN << "detach" >> ELSE << >>)
    \o (IF sourceRef # 0 THEN << "source" >> ELSE << >>)
    \o (IF streamRef # 0 THEN << "stream" >> ELSE << >>)
    \o (IF bgNoiseRef THEN << "noise" >> ELSE << >>)
    \o (IF audioContextRef # 0 THEN << "context" >> ELSE << >>)
    \o (IF ClosesNow(st) THEN << "close" >> ELSE << >>)

\* disconnect(), run with the connection states st its caller leaves; closing
\* the output context discards every source scheduled on it
Disconnect(st) ==
    LET steps == TeardownSteps(st)
        Runs(x) == \E n \in DOMAIN steps : steps[n] = x
    IN
    /\ sess' = IF Runs("close") THEN AfterCloseCall(st) ELSE st
    /\ closeQueued' = QueuedCloseCall(st)
    /\ handler' = IF Runs("detach") THEN handler \ {processorRef} ELSE handler
    /\ processorRef' = 0
    /\ srcConn' = IF Runs("source") THEN srcConn \ {sourceRef} ELSE srcConn
    /\ sourceRef' = 0
    /\ mic' = IF Runs("stream") THEN [mic EXCEPT ![streamRef] = "stopped"] ELSE mic
    /\ streamRef' = 0
    /\ bgNoiseRef' = FALSE
    /\ audioContextRef' = 0
    /\ ctxTime' = 0
    /\ connected' = FALSE
    /\ mode' = "IDLE"
    /\ tornDown' = tornDown \cup { s \in Sessions : st[s] # "none" }
    /\ slots' = << >>
    /\ volumeSq' = [num |-> 0, den |-> 1]
    /\ nextStartTimeRef' = NextStartAfterTeardown(nextStartTimeRef)
    /\ UNCHANGED << apiKey, callFilterEnabled, sessionRef, toolVars, frameLog,
                    filterSeen, inputData, b64Data, channelData, orderVars,
                    inboxVars >>

\* the orb button while connected is true
UserDisconnect ==
    /\ connected
    /\ Disconnect(sess)

\* --------------------------------------------------------------- connect
\* the orb button while connected is false, without a credential
ConnectNoKey ==
    /\ ~connected
    /\ ~apiKey
    /\ UNCHANGED vars

\* the orb button while connected is false: connectToLiveAPI up to the
\* `await navigator.mediaDevices.getUserMedia`, for the first n sessions
Connect(n) ==
    /\ ~connected
    /\ apiKey
    /\ \E s \in 1..n :
        /\ sess[s] = "none"
        /\ \A r \in Sessions : r < s => sess[r] # "none"
        /\ sess' = [sess EXCEPT ![s] = "mic"]
        /\ filterSeen' = [filterSeen EXCEPT ![s] = callFilterEnabled]
        /\ audioContextRef' = IF audioContextRef = 0 THEN s ELSE audioContextRef
        /\ ctxTime' = IF audioContextRef = 0 THEN 0 ELSE ctxTime
    /\ mode' = "LISTENING"
    /\ connected' = TRUE
    /\ bgNoiseRef' = (bgNoiseRef \/ callFilterEnabled)
    /\ UNCHANGED << apiKey, dataVars, orderVars, inboxVars, callFilterEnabled, sessionRef, processorRef, sourceRef,
                    streamRef, mic, closeQueued, handler, srcConn, tornDown,
                    audioVars, toolVars, frameLog >>

\* getUserMedia resolves: the rest of connectToLiveAPI runs
MicGranted(s) ==
    /\ sess[s] = "mic"
    /\ mic' = [mic EXCEPT ![s] = "live"]
    /\ streamRef' = s
    /\ sess' = [sess EXCEPT ![s] = "connecting"]
    /\ sessionRef' = s
    /\ UNCHANGED << apiKey, filterSeen, dataVars, orderVars, inboxVars, mode, connected, callFilterEnabled, audioContextRef,
                    ctxTime, processorRef, sourceRef, bgNoiseRef, closeQueued,
                    handler, srcConn, tornDown, audioVars, toolVars, frameLog >>

\* getUserMedia rejects: the catch logs and the rest of connectToLiveAPI runs
MicDenied(s) ==
    /\ sess[s] = "mic"
    /\ mic' = [mic EXCEPT ![s] = "failed"]
    /\ sess' = [sess EXCEPT ![s] = "connecting"]
    /\ sessionRef' = s
    /\ UNCHANGED << apiKey, filterSeen, dataVars, orderVars, inboxVars, mode, connected, callFilterEnabled, audioContextRef,
                    ctxTime, processorRef, sourceRef, streamRef, bgNoiseRef,
                    closeQueued, handler, srcConn, tornDown, audioVars, toolVars,
                    frameLog >>

\* the session promise rejects: sessionPromise.catch
ConnectFail(s) ==
    /\ sess[s] = "connecting"
    /\ Disconnect([sess EXCEPT ![s] = "failed"])

\* capture set up whether or not a stream was acquired
InstallsCaptureAlways(m) == TRUE

\* `if (stream && inputCtx)`
InstallsCapture(m) == m # "failed"

\* the socket opens: onopen, then the promise resolves and the callbacks queued
\* on it run (a close() queued by an earlier disconnect first)
OnOpen(s) ==
    /\ sess[s] = "connecting"
    /\ IF InstallsCapture(mic[s])
       THEN /\ handler' = handler \cup {s}
            /\ srcConn' = srcConn \cup {s}
            /\ sourceRef' = s
            /\ processorRef' = s
       ELSE UNCHANGED << handler, srcConn, sourceRef, processorRef >>
    /\ sess' = [sess EXCEPT ![s] = IF s \in closeQueued THEN "closing" ELSE "open"]
    /\ closeQueued' = closeQueued \ {s}
    /\ UNCHANGED << apiKey, filterSeen, dataVars, orderVars, inboxVars, mode, connected, callFilterEnabled, audioContextRef,
                    ctxTime, sessionRef, streamRef, bgNoiseRef, mic, tornDown,
                    audioVars, toolVars, frameLog >>

\* the transport's close event
OnClose(s) ==
    /\ sess[s] \in {"open", "closing"}
    /\ Disconnect([sess EXCEPT ![s] = "closed"])

\* the transport's error event
OnError(s) ==
    /\ sess[s] \in {"open", "closing"}
    /\ Disconnect(sess)

\* the phone-filter switch of the settings panel
ToggleFilter ==
    /\ callFilterEnabled' = ~callFilterEnabled
    /\ UNCHANGED << apiKey, mode, connected, refVars, nextStartTimeRef, sess, mic,
                    closeQueued, handler, srcConn, tornDown, slots, toolVars,
                    frameLog, filterSeen, dataVars, orderVars,
                    inboxVars >>

\* --------------------------------------------------------------- capture
\* processor.onaudioprocess of session s, with the send it queues on the
\* (resolved) session promise
CaptureFrame(s) ==
    /\ s \in handler
    /\ IF processorRef = 0
       THEN UNCHANGED frameLog
       ELSE frameLog' = frameLog \cup {[sess |-> s, late |-> s \in tornDown]}
    /\ UNCHANGED << apiKey, filterSeen, dataVars, orderVars, inboxVars, mode, connected, callFilterEnabled, refVars, sess, mic,
                    closeQueued, handler, srcConn, tornDown, audioVars, toolVars >>

\* --------------------------------------------------------- capture order
\* callbacks of a promise that run newest first
ThenOrderNewestFirst(q) == [i \in DOMAIN q |-> q[Len(q) + 1 - i]]

\* the callbacks registered with then() on a pending promise run, when it
\* resolves, in the order they were registered
ThenOrder(q) == q

\* processor.onaudioprocess of session s, with the frames numbered as they are
\* captured: on a resolved promise the send runs as a microtask of the
\* callback, on a pending one it waits
CaptureInOrder(s) ==
    /\ s \in handler
    /\ processorRef # 0
    /\ captured < MaxFrames
    /\ captured' = captured + 1
    /\ LET f == [sess |-> s, n |-> captured + 1, early |-> s \notin settled] IN
       IF s \in settled
       THEN sent' = Append(sent, f) /\ UNCHANGED queued
       ELSE queued' = Append(queued, f) /\ UNCHANGED sent
    /\ UNCHANGED << apiKey, mode, connected, callFilterEnabled, refVars,
                    nextStartTimeRef, sess, mic, closeQueued, handler, srcConn,
                    tornDown, slots, toolVars, frameLog, filterSeen, dataVars,
                    inboxVars, settled >>

\* the session promise of s resolves, in the task of onopen or in a later one:
\* the sends waiting on it run, each if a processor is still in place
SessionResolves(s) ==
    /\ sess[s] \in {"open", "closing"}
    /\ s \notin settled
    /\ settled' = settled \cup {s}
    /\ LET Mine(f) == f.sess = s
           Others(f) == f.sess # s
       IN /\ sent' = IF processorRef = 0 THEN sent
                     ELSE sent \o ThenOrder(SelectSeq(queued, Mine))
          /\ queued' = SelectSeq(queued, Others)
    /\ UNCHANGED << apiKey, mode, connected, callFilterEnabled, refVars,
                    nextStartTimeRef, sess, mic, closeQueued, handler, srcConn,
                    tornDown, slots, toolVars, frameLog, filterSeen, dataVars,
                    inboxVars, captured >>

\* ------------------------------------------------------------- onmessage
\* a tool loop of session s is suspended on a capability
Pending(s) ==
    \E b \in DOMAIN batches :
        batches[b].sess = s /\ batches[b].idx <= Len(batches[b].calls)

\* a handler that takes a message only when the one before it has returned
DeliveredInTurn(s) == sess[s] \in {"open", "closing"} /\ ~Pending(s)

\* the transport calls onmessage for each message of a socket that has opened
\* and not yet closed, whether or not an earlier call of it has returned
Delivered(s) == sess[s] \in {"open", "closing"}

\* -------------------------------------------------------------- playback
\* a scheduler that starts every buffer at the current time
ScheduleStartNow(now, next) == now

\* `Math.max(now, nextStartTimeRef.current)`
ScheduleStart(now, next) == Max(now, next)

\* an audio chunk that does not interrupt THINKING
ModeOnAudioKeepThinking(m) == IF m = "THINKING" THEN m ELSE "SPEAKING"

\* `setMode(AppMode.SPEAKING)`
ModeOnAudio(m) == "SPEAKING"

\* a message with a model audio chunk of duration d.  Without an output
\* context decodeAudioData throws on ctx.createBuffer and the handler ends
\* after setMode.
OnMessageAudio(s, d) ==
    /\ Delivered(s)
    /\ Len(slots) < MaxSlots
    /\ mode' = ModeOnAudio(mode)
    /\ IF audioContextRef = 0
       THEN UNCHANGED audioVars
       ELSE LET start == ScheduleStart(ctxTime, nextStartTimeRef) IN
            /\ start + d <= MaxTime
            /\ slots' = Append(slots, [sess |-> s, start |-> start,
                                       end |-> start + d, done |-> FALSE,
                                       filtered |-> filterSeen[s]])
            /\ nextStartTimeRef' = start + d
    /\ UNCHANGED << apiKey, filterSeen, dataVars, orderVars, inboxVars, connected, callFilterEnabled, refVars, sess, mic,
                    closeQueued, handler, srcConn, tornDown, toolVars, frameLog >>

\* a drained test that needs the clock to have passed nextAvailable
DrainedStrict(now, next) == now > next

\* `ctx.currentTime >= nextStartTimeRef.current - 0.1`
Drained(now, next) == now >= next - Eps

\* source.onended of slot i
Ended(i) ==
    /\ i \in DOMAIN slots
    /\ ~slots[i].done
    /\ ctxTime >= slots[i].end
    /\ slots' = [slots EXCEPT ![i].done = TRUE]
    /\ mode' = IF Drained(ctxTime, nextStartTimeRef) THEN "LISTENING" ELSE mode
    /\ UNCHANGED << apiKey, filterSeen, dataVars, orderVars, inboxVars, connected, callFilterEnabled, refVars, sess, mic,
                    closeQueued, handler, srcConn, tornDown, nextStartTimeRef,
                    toolVars, frameLog >>

\* the output clock advances
Tick ==
    /\ audioContextRef # 0
    /\ ctxTime < MaxTime
    /\ ctxTime' = ctxTime + 1
    /\ UNCHANGED << apiKey, filterSeen, dataVars, orderVars, inboxVars, mode, connected, callFilterEnabled, audioContextRef,
                    sessionRef, processorRef, sourceRef, streamRef, bgNoiseRef,
                    sess, mic, closeQueued, handler, srcConn, tornDown, audioVars,
                    toolVars, frameLog >>

\* ------------------------------------------------------------ audio data
Min(a, b) == IF a <= b THEN a ELSE b
Abs(a) == IF a >= 0 THEN a ELSE -a

Samples == -SampleDen..SampleDen
Frames == UNION { [1..n -> Samples] : n \in 1..MaxFrameLen }

\* the integer part of num / den (den > 0), as a store into a typed array takes it
Trunc(num, den) == IF num >= 0 THEN num \div den ELSE -((-num) \div den)

\* a store into an Int16Array: modulo 2^16, read back as two's complement
ToInt16(v) == ((v + Int16Scale) % (2 * Int16Scale)) - Int16Scale

\* `Math.max(-1, Math.min(1, data[i]))`, in 1/SampleDen
Clamp(k) == Max(-SampleDen, Min(SampleDen, k))

\* `int16[i] = s < 0 ? s * 0x8000 : s * 0x7FFF`
EncodeSample(k) ==
    LET s == Clamp(k) IN
    ToInt16(Trunc(IF s < 0 THEN s * Int16Scale ELSE s * Int16Max, SampleDen))

\* `new Uint8Array(int16.buffer)`: the two bytes of an element, low byte first
BytesOf(v) ==
    LET u == (v + 2 * Int16Scale) % (2 * Int16Scale) IN
    << u % (ByteMax + 1), u \div (ByteMax + 1) >>

\* createAudioData: the bytes that btoa encodes (base64 keeps every byte)
RECURSIVE createAudioData(_)
createAudioData(data) ==
    IF data = << >> THEN << >>
    ELSE BytesOf(EncodeSample(data[1])) \o createAudioData(Tail(data))

\* decodeAudioData: `new Int16Array(bytes.buffer)` and `dataInt16[i] / 32768.0`;
\* the samples are kept as their numerators over 32768
decodeAudioData(bytes) ==
    [i \in 1..(Len(bytes) \div 2) |->
        ToInt16(bytes[2 * i - 1] + (ByteMax + 1) * bytes[2 * i])]

RECURSIVE SumSq(_)
SumSq(data) == IF data = << >> THEN 0 ELSE data[1] * data[1] + SumSq(Tail(data))

\* `rms = Math.sqrt(sum / inputData.length)`, squared
RmsSq(data) == [num |-> SumSq(data), den |-> Len(data) * SampleDen * SampleDen]

\* `avg = data.reduce(...) / data.length / 255` with every bin at level, and
\* `avg * 8`, squared
BoostedSq(level) ==
    LET sum == AnalyserBins * level IN
    [num |-> (VolumeBoost * sum) * (VolumeBoost * sum),
     den |-> (AnalyserBins * ByteMax) * (AnalyserBins * ByteMax)]

\* the data path of processor.onaudioprocess for one frame: setVolume(rms) and
\* the encoded frame handed to sendRealtimeInput
OnAudioProcess(frame) ==
    /\ inputData' = frame
    /\ volumeSq' = RmsSq(frame)
    /\ b64Data' = createAudioData(frame)
    /\ channelData' = << >>
    /\ UNCHANGED engineVars

\* decodeAudioData applied to the bytes createAudioData produced
DecodeEncoded ==
    /\ b64Data # << >>
    /\ channelData = << >>
    /\ channelData' = decodeAudioData(b64Data)
    /\ UNCHANGED << engineVars, inputData, b64Data, volumeSq >>

\* one run of the volumeInterval callback
VolumeTick(level) ==
    /\ volumeSq' = BoostedSq(level)
    /\ UNCHANGED << engineVars, inputData, b64Data, channelData >>

\* `setVolume(0)` of disconnect
VolumeReset ==
    /\ volumeSq' = [num |-> 0, den |-> 1]
    /\ UNCHANGED << engineVars, inputData, b64Data, channelData >>

\* processor.onaudioprocess of session s publishing the volume of a frame:
\* it runs while the callback is attached and a processor is in place,
\* whatever the mode
CaptureVolume(s, frame) ==
    /\ s \in handler
    /\ processorRef # 0
    /\ OnAudioProcess(frame)

\* the volumeInterval of slot i publishing the output level: the interval runs
\* from the arrival of the buffer until source.onended clears it
OutputVolume(i, level) ==
    /\ i \in DOMAIN slots
    /\ ~slots[i].done
    /\ VolumeTick(level)

\* ----------------------------------------------------------------- tools
\* the function calls received so far, in order of arrival
RECURSIVE CallsOf(_)
CallsOf(bs) == IF bs = << >> THEN << >> ELSE bs[1].calls \o CallsOf(Tail(bs))
Received == CallsOf(batches)

\* a branch that reads a property of fc.args before it suspends or returns
ReadsArgs(c) ==
    \/ c.name \in AsyncTools \cup {"send_text_response", "edit_text_message"}
    \/ c.name \in ImageTools /\ c.env = "has"

\* reading a property of an absent fc.args throws a TypeError
Throws(c) == ReadsArgs(c) /\ c.args = "undef"

\* a branch that reaches an `await` on a capability of geminiService (the
\* `await handleCapture()` before it resolves without a suspension)
Awaits(c) ==
    /\ ~Throws(c)
    /\ \/ c.name \in AsyncTools
       \/ c.name \in ImageTools /\ c.env = "has"

\* what the awaited capability is called with: `fc.args.x as string`
PassedArg(c) == IF c.args = "ok" THEN "ok" ELSE "missing"

\* the result of a branch that completes without suspending
SyncResult(c) ==
    IF Throws(c)
    THEN [kind |-> "error", text |-> "Tool execution failed"]
    ELSE IF c.name = "edit_current_image"
    THEN [kind |-> "error", text |-> "No image found in inbox history to edit."]
    ELSE IF c.name = "see_and_analyze"
    THEN [kind |-> "error", text |-> "Could not access camera."]
    ELSE IF c.name = "analyze_uploaded_image"
    THEN [kind |-> "error", text |-> "No uploaded image found in inbox."]
    ELSE IF c.name = "read_inbox_messages"
    THEN IF c.env = "has"
         THEN [kind |-> "result", text |-> "Found message(s)"]
         ELSE [kind |-> "result", text |-> "No text messages found in inbox."]
    ELSE IF c.name = "edit_text_message"
    THEN IF c.args = "ok" /\ c.env = "has"
         THEN [kind |-> "result", text |-> "Message updated successfully."]
         ELSE [kind |-> "error", text |-> "Message not found or update failed."]
    ELSE IF c.name = "send_text_response"
    THEN [kind |-> "result", text |-> "Message sent to inbox. ID"]
    ELSE [kind |-> "error", text |-> "Unknown tool"]

\* what the awaited capabilities return: geminiService catches its own errors
Outcomes(c) ==
    IF c.name \in {"generate_image", "edit_current_image"}
    THEN {"value", "null"} ELSE {"value"}

\* a branch that takes every return of its capability for a success
AsyncResultOptimistic(c, out) == [kind |-> "result", text |-> "capability text"]

\* the result of a branch after its capability returned out
AsyncResult(c, out) ==
    IF c.name = "generate_image"
    THEN IF out = "value"
         THEN [kind |-> "result", text |-> "Okay, I've sent over the image."]
         ELSE [kind |-> "error", text |-> "Failed to generate image."]
    ELSE IF c.name = "edit_current_image"
    THEN IF out = "value"
         THEN [kind |-> "result", text |-> "Okay, I've sent over the edited image."]
         ELSE [kind |-> "error", text |-> "Failed to edit image."]
    ELSE [kind |-> "result", text |-> "capability text"]

\* a dispatcher that reports only successful results
SendResultsOnly(log, s, c, r) ==
    IF r.kind = "error" THEN log
    ELSE Append(log, [sess |-> s, id |-> c.id, name |-> c.name, kind |-> r.kind,
                      text |-> r.text])

\* a dispatcher that puts each result in front of the ones it has issued
SendToolResponseFirst(log, s, c, r) ==
    << [sess |-> s, id |-> c.id, name |-> c.name, kind |-> r.kind,
        text |-> r.text] >> \o log

\* `sessionPromise.then(session => session.sendToolResponse(...))` of the
\* handler of session s, for call c with result r
SendToolResponse(log, s, c, r) ==
    Append(log, [sess |-> s, id |-> c.id, name |-> c.name, kind |-> r.kind,
                 text |-> r.text])

\* the for loop from call i on, up to the next call that suspends
RECURSIVE RunLoop(_, _, _, _)
RunLoop(calls, i, log, s) ==
    IF i > Len(calls) \/ Awaits(calls[i])
    THEN [idx |-> i, log |-> log]
    ELSE RunLoop(calls, i + 1, SendToolResponse(log, s, calls[i], SyncResult(calls[i])), s)

\* the argument of the capability call i of calls is suspended on, if any
Passed(calls, i) == IF i > Len(calls) THEN "none" ELSE PassedArg(calls[i])

\* a tool call that leaves the mode as it is
ModeOnToolCallKeep(m) == m

\* `setMode(AppMode.THINKING)`
ModeOnToolCall(m) == "THINKING"

\* a message with a tool call whose function calls are kinds, numbered by the
\* remote service
OnMessageTool(s, kinds) ==
    /\ Delivered(s)
    /\ Len(Received) + Len(kinds) <= MaxCalls
    /\ LET calls == [k \in DOMAIN kinds |->
                        [id |-> Len(Received) + k, name |-> kinds[k].name,
                         args |-> kinds[k].args, env |-> kinds[k].env]]
           r == RunLoop(calls, 1, toolLog, s)
       IN /\ batches' = Append(batches, [sess |-> s, calls |-> calls, idx |-> r.idx,
                                         passed |-> Passed(calls, r.idx)])
          /\ toolLog' = r.log
    /\ mode' = ModeOnToolCall(mode)
    /\ UNCHANGED << apiKey, filterSeen, dataVars, orderVars, inboxVars, connected, callFilterEnabled, refVars, sess, mic,
                    closeQueued, handler, srcConn, tornDown, audioVars, frameLog >>

\* the capability awaited by batch b returns out: the result is sent and the
\* loop goes on
ToolComplete(b, out) ==
    /\ b \in DOMAIN batches
    /\ batches[b].idx <= Len(batches[b].calls)
    /\ LET bt == batches[b]
           c == bt.calls[bt.idx]
           r == RunLoop(bt.calls, bt.idx + 1,
                        SendToolResponse(toolLog, bt.sess, c, AsyncResult(c, out)),
                        bt.sess)
       IN /\ out \in Outcomes(c)
          /\ batches' = [batches EXCEPT ![b].idx = r.idx,
                                        ![b].passed = Passed(bt.calls, r.idx)]
          /\ toolLog' = r.log
    /\ UNCHANGED << apiKey, filterSeen, dataVars, orderVars, inboxVars, mode, connected, callFilterEnabled, refVars, sess, mic,
                    closeQueued, handler, srcConn, tornDown, audioVars, frameLog >>

\* ----------------------------------------------------------------- inbox
\* the text-message calls: a send, or an edit of the message with id target
InboxKinds ==
    {[name |-> "send_text_response", target |-> 0]}
        \cup {[name |-> "edit_text_message", target |-> t] : t \in MsgIds}
InboxBatches == UNION { [1..n -> InboxKinds] : n \in 1..MaxBatchLen }

\* addToInbox: the id of the new message; the ids stand for the random
\* strings in the order they are handed out
NewId(box) == Cardinality({ i \in MsgIds : box[i] # "absent" }) + 1

\* editInboxMessage: `inboxRef.current.some(item => item.id === id)`
Found(ref, id) == ref[id] # "absent"

\* the for loop over text-message calls, none of which suspends: box is the
\* inbox with the setInbox updates queued so far, ref is inboxRef.current,
\* which nothing in the loop writes
RECURSIVE RunInbox(_, _, _, _, _, _)
RunInbox(calls, i, box, ref, log, s) ==
    IF i > Len(calls) THEN [box |-> box, log |-> log]
    ELSE LET c == calls[i] IN
         IF c.name = "send_text_response"
         THEN RunInbox(calls, i + 1, [box EXCEPT ![NewId(box)] = "sent"], ref,
                       SendToolResponse(log, s, c, SyncResult(c)), s)
         ELSE LET ok == Found(ref, c.target)
                  e == [c EXCEPT !.env = IF ok THEN "has" ELSE "none"]
              IN RunInbox(calls, i + 1,
                          IF ok THEN [box EXCEPT ![c.target] = "edited"] ELSE box,
                          ref, SendToolResponse(log, s, c, SyncResult(e)), s)

\* a message with a tool call made of text-message calls
OnMessageInbox(s, kinds) ==
    /\ Delivered(s)
    /\ Len(Received) + Len(kinds) <= MaxCalls
    /\ NewId(inbox) - 1
         + Cardinality({ k \in DOMAIN kinds : kinds[k].name = "send_text_response" })
            <= MaxMsgs
    /\ LET calls == [k \in DOMAIN kinds |->
                        [id |-> Len(Received) + k, name |-> kinds[k].name,
                         args |-> "ok", env |-> "none", target |-> kinds[k].target]]
           r == RunInbox(calls, 1, inbox, inboxRef, toolLog, s)
       IN /\ batches' = Append(batches, [sess |-> s, calls |-> calls,
                                         idx |-> Len(calls) + 1, passed |-> "none"])
          /\ toolLog' = r.log
          /\ inbox' = r.box
    /\ mode' = ModeOnToolCall(mode)
    /\ UNCHANGED << apiKey, filterSeen, dataVars, orderVars, inboxRef, connected,
                    callFilterEnabled, refVars, sess, mic, closeQueued, handler,
                    srcConn, tornDown, audioVars, frameLog >>

\* App renders with the queued inbox updates and its effect copies the inbox
\* into inboxRef.current
InboxEffect ==
    /\ inboxRef # inbox
    /\ inboxRef' = inbox
    /\ UNCHANGED << apiKey, mode, connected, callFilterEnabled, refVars,
                    nextStartTimeRef, sess, mic, closeQueued, handler, srcConn,
                    tornDown, slots, toolVars, frameLog, filterSeen, dataVars,
                    orderVars, inbox >>

\* ------------------------------------------------------------------ spec
Batches == UNION { [1..n -> CallKinds] : n \in 1..MaxBatchLen }

\* connect, teardown and the transport's lifecycle events, with at most n
\* sessions started
LifecycleNext(n) ==
    \/ ConnectNoKey
    \/ Connect(n)
    \/ UserDisconnect
    \/ \E s \in Sessions : MicGranted(s)
    \/ \E s \in Sessions : MicDenied(s)
    \/ \E s \in Sessions : ConnectFail(s)
    \/ \E s \in Sessions : OnOpen(s)
    \/ \E s \in Sessions : OnClose(s)
    \/ \E s \in Sessions : OnError(s)

CaptureNext == \E s \in Sessions : CaptureFrame(s)

PlaybackNext ==
    \/ \E s \in Sessions, d \in 1..MaxDur : OnMessageAudio(s, d)
    \/ \E i \in 1..MaxSlots : Ended(i)
    \/ Tick

ToolNext ==
    \/ \E s \in Sessions, kinds \in Batches : OnMessageTool(s, kinds)
    \/ \E b \in 1..MaxCalls, out \in {"value", "null"} : ToolComplete(b, out)

Next == LifecycleNext(MaxSessions) \/ CaptureNext \/ PlaybackNext \/ ToolNext

\* The whole engine.
Spec == Init /\ [][Next]_vars

(***************************************************************************)
(* The claims are checked on three projections of Spec, each the lifecycle *)
(* with one of the loops that run beside it.  No guard of any action reads *)
(* mode, batches, toolLog or frameLog, and capture, playback and the tool  *)
(* loop write only mode and their own variables (frameLog; slots,          *)
(* nextStartTimeRef, ctxTime; batches, toolLog), so leaving a loop out     *)
(* removes no behaviour of the variables the others read.                  *)
(***************************************************************************)

\* lifecycle and capture
SessionSpec == Init /\ [][LifecycleNext(MaxSessions) \/ CaptureNext]_vars

\* a one-call batch that completes without suspending: to the mode, every
\* tool-call message is this one
OneCall == << [name |-> "send_text_response", args |-> "ok", env |-> "none"] >>

\* The lifecycle beside a loop: the credential is set and the phone filter on
\* (its default); the microphone is granted.  What these decide (the capture
\* variables, bgNoiseRef) no action of playback or of the tool loop reads.
LoopInit == Init /\ apiKey /\ callFilterEnabled
LoopLifecycle(n) ==
    \/ Connect(n)
    \/ UserDisconnect
    \/ \E s \in Sessions : MicGranted(s)
    \/ \E s \in Sessions : ConnectFail(s)
    \/ \E s \in Sessions : OnOpen(s)
    \/ \E s \in Sessions : OnClose(s)
    \/ \E s \in Sessions : OnError(s)

\* lifecycle and playback, with the messages that set the mode; an ended
\* event that is due is delivered
PlaybackSpec ==
    /\ LoopInit
    /\ [][LoopLifecycle(MaxLoopSessions) \/ PlaybackNext
            \/ \E s \in Sessions : OnMessageTool(s, OneCall)]_vars
    /\ \A i \in 1..MaxSlots : WF_vars(Ended(i))

\* lifecycle and the tool loop; every capability invocation returns
ToolSpec ==
    /\ LoopInit
    /\ [][LoopLifecycle(MaxLoopSessions) \/ ToolNext]_vars
    /\ \A b \in 1..MaxCalls : WF_vars(\E out \in {"value", "null"} : ToolComplete(b, out))

\* lifecycle and the tool loop with one-call messages over the whole manifest
DispatchNext ==
    \/ \E s \in Sessions, k \in AllCallKinds :
          Len(Received) < MaxDispatch /\ OnMessageTool(s, << k >>)
    \/ \E b \in 1..MaxCalls, out \in {"value", "null"} : ToolComplete(b, out)

\* sessions that open and are closed by the transport: what a branch answers
\* does not depend on how its session ends
OpenCloseLifecycle(n) ==
    \/ Connect(n)
    \/ \E s \in Sessions : MicGranted(s)
    \/ \E s \in Sessions : OnOpen(s)
    \/ \E s \in Sessions : OnClose(s)

DispatchSpec ==
    /\ LoopInit
    /\ [][OpenCloseLifecycle(MaxLoopSessions) \/ DispatchNext]_vars

\* lifecycle, the phone-filter switch and playback
FilterInit == Init /\ apiKey
FilterSpec ==
    /\ FilterInit
    /\ [][\/ LoopLifecycle(MaxLoopSessions)
          \/ ToggleFilter
          \/ PlaybackNext]_vars

\* the capture codec on its own: frames are encoded and decoded again
CodecSpec ==
    /\ LoopInit
    /\ [][(\E frame \in Frames : OnAudioProcess(frame)) \/ DecodeEncoded]_vars

\* the writers of the volume state on their own
VolumeSpec ==
    /\ LoopInit
    /\ [][\/ \E frame \in Frames : OnAudioProcess(frame)
          \/ \E level \in 0..ByteMax : VolumeTick(level)
          \/ VolumeReset]_vars

\* sessions the user opens and disconnects one after another, with playback
ReconnectLifecycle(n) ==
    \/ Connect(n)
    \/ UserDisconnect
    \/ \E s \in Sessions : MicGranted(s)
    \/ \E s \in Sessions : OnOpen(s)

ReconnectSpec ==
    /\ LoopInit
    /\ [][ReconnectLifecycle(MaxSessions) \/ PlaybackNext]_vars

\* lifecycle with capture, playback and the messages that set the mode: every
\* operation beside the scheduler
SchedulerSpec ==
    /\ LoopInit
    /\ [][ReconnectLifecycle(MaxLoopSessions) \/ CaptureNext \/ PlaybackNext
            \/ \E s \in Sessions : OnMessageTool(s, OneCall)]_vars

\* a one-call batch whose branch suspends on a capability
AwaitedCall == << [name |-> "generate_image", args |-> "ok", env |-> "none"] >>

\* audio chunks that arrive while capabilities are in flight
DuplexSpec ==
    /\ LoopInit
    /\ [][\/ OpenCloseLifecycle(MaxLoopSessions)
          \/ \E s \in Sessions, d \in 1..MaxDur : OnMessageAudio(s, d)
          \/ Tick
          \/ \E s \in Sessions : OnMessageTool(s, AwaitedCall)
          \/ \E b \in 1..MaxCalls : ToolComplete(b, "value")]_vars

\* capture callbacks and the resolution of the session promise
OrderSpec ==
    /\ LoopInit
    /\ [][\/ LoopLifecycle(MaxLoopSessions)
          \/ \E s \in Sessions : CaptureInOrder(s)
          \/ \E s \in Sessions : SessionResolves(s)]_vars

\* a silent and a full-scale capture frame, a silent and a full-scale output
PhaseFrames == { << 0 >>, << SampleDen >> }
PhaseLevels == { 0, ByteMax }

\* the two writers of the volume beside lifecycle and playback
PhaseSpec ==
    /\ LoopInit
    /\ [][\/ ReconnectLifecycle(MaxLoopSessions)
          \/ PlaybackNext
          \/ \E s \in Sessions, frame \in PhaseFrames : CaptureVolume(s, frame)
          \/ \E i \in 1..MaxSlots, level \in PhaseLevels : OutputVolume(i, level)]_vars

\* text-message calls and the renders that bring inboxRef up to date
InboxSpec ==
    /\ LoopInit
    /\ [][\/ LoopLifecycle(MaxLoopSessions)
          \/ \E s \in Sessions, kinds \in InboxBatches : OnMessageInbox(s, kinds)
          \/ InboxEffect]_vars

\* ---------------------------------------------------------------- claims

\* C1: within one session every buffer is scheduled at
\* start = max(now, nextAvailable) and nextAvailable becomes start + duration,
\* so no two slots of a session overlap and slot n+1 never starts before the end
\* of slot n.
SlotsInOrder ==
    \A i, j \in DOMAIN slots :
        (i < j /\ slots[i].sess = slots[j].sess) => slots[j].start >= slots[i].end
ScheduledAtMax ==
    Len(slots') = Len(slots) + 1 =>
        LET n == slots'[Len(slots')] IN
        /\ n.start = Max(ctxTime, nextStartTimeRef)
        /\ n.end > n.start
        /\ nextStartTimeRef' = n.end
C1_GaplessSchedule == [][ScheduledAtMax]_vars /\ []SlotsInOrder
\* a buffer queued behind one that has not finished, and one that starts late
C1_Witness ==
    /\ Len(slots) = 2
    /\ slots[1].sess = slots[2].sess
    /\ ~slots[1].done
    /\ slots[2].start = slots[1].end
    /\ slots[1].start > 0

\* C2: every function call received on an open session is eventually answered
\* by exactly one sendToolResponse with the call's id and name, on the session
\* it arrived on, whatever the capability does (every invocation returns).
\* Received only grows and no answer is withdrawn, so a call is answered from
\* the first state on in which every call received is.
AnswersOf(id) == { n \in DOMAIN toolLog : toolLog[n].id = id }
AnsweredOnce ==
    /\ \A b \in DOMAIN batches : \A k \in DOMAIN batches[b].calls :
        LET c == batches[b].calls[k] IN
        /\ Cardinality(AnswersOf(c.id)) <= 1
        /\ \A n \in AnswersOf(c.id) :
            toolLog[n].name = c.name /\ toolLog[n].sess = batches[b].sess
    /\ \A n \in DOMAIN toolLog : toolLog[n].id \in 1..Len(Received)
AllAnswered == \A id \in 1..Len(Received) : AnswersOf(id) # {}
C2_EveryCallAnswered == []AnsweredOnce /\ []<>AllAnswered
\* a batch whose capability returned nothing and whose next call threw
C2_Witness ==
    /\ Len(toolLog) = 2
    /\ Len(batches) = 1
    /\ toolLog[1].text = "Failed to generate image."
    /\ toolLog[2].text = "Tool execution failed"

\* what teardown leaves: nothing of capture, noise or output is allocated
Released ==
    /\ processorRef = 0 /\ handler = {}
    /\ sourceRef = 0 /\ srcConn = {}
    /\ streamRef = 0 /\ \A s \in Sessions : mic[s] # "live"
    /\ ~bgNoiseRef
    /\ audioContextRef = 0

\* C3: from every state a transport close or error event leads to IDLE with
\* connected false, the capture callback detached, the microphone source and
\* stream released, the noise generator stopped and the output context closed.
C3_CloseReleasesAll ==
    [][(\E s \in Sessions : OnClose(s) \/ OnError(s)) =>
        (mode' = "IDLE" /\ ~connected' /\ Released')]_vars

\* C4: at most one session opened by connectToLiveAPI is open at any time.
Open == { s \in Sessions : sess[s] = "open" }
C4_OneOpenSession == Cardinality(Open) <= 1

\* C5: with an open session (LISTENING, THINKING or SPEAKING) a message that
\* carries a model audio chunk sets the mode to SPEAKING.
C5_AudioSetsSpeaking ==
    [][((\E s \in Sessions, d \in 1..MaxDur : OnMessageAudio(s, d))
            /\ mode \in {"LISTENING", "THINKING", "SPEAKING"})
        => mode' = "SPEAKING"]_vars
\* an audio chunk that arrived after a tool call on a session never torn down
C5_Witness ==
    /\ mode = "SPEAKING"
    /\ Len(slots) = 1 /\ ~slots[1].done
    /\ batches # << >>
    /\ \A b \in DOMAIN batches : batches[b].sess = slots[1].sess
    /\ sess[slots[1].sess] = "open"
    /\ tornDown = {}

\* C6: when the mode is SPEAKING and the output clock has reached
\* nextAvailable, the mode eventually becomes LISTENING, unless a further audio
\* chunk (the clock is behind nextAvailable again) or tool call (THINKING)
\* arrives or the session is torn down (IDLE).
DrainedSpeaking ==
    mode = "SPEAKING" /\ audioContextRef # 0 /\ ctxTime >= nextStartTimeRef
C7_FailedOpenEndsIdle ==
    [][/\ ConnectNoKey => UNCHANGED vars
       /\ (\E s \in Sessions : ConnectFail(s)) =>
            (mode' = "IDLE" /\ ~connected' /\ Released')]_vars

\* C8: a session whose microphone acquisition failed still opens, never
\* installs a capture callback and never sends an audio frame.
C8_NoMicNoFrames ==
    \A s \in Sessions : mic[s] = "failed" =>
        /\ s \notin handler
        /\ processorRef # s
        /\ \A f \in frameLog : f.sess # s
\* such a session, open and LISTENING
C8_Witness ==
    \E s \in Sessions :
        /\ mic[s] = "failed"
        /\ sess[s] = "open"
        /\ mode = "LISTENING"
        /\ connected

\* C9: once disconnect has begun for a session, no captured frame of that
\* session is sent to the transport.
C9_NoFrameAfterTeardown == \A f \in frameLog : ~f.late

\* C10: a tool-call message that arrives while the mode is SPEAKING leaves
\* the mode SPEAKING.
C10_ToolCallKeepsSpeaking ==
    [][((\E s \in Sessions : OnMessageTool(s, OneCall)) /\ mode = "SPEAKING")
        => mode' = "SPEAKING"]_vars

\* C11: a tool-call batch that arrives while the mode is LISTENING sets the
\* mode to THINKING in the task that invokes its first capability, the
\* capability is called with the argument of the call, and when it returns a
\* value a result with the call's id and name and a success payload is sent.
ListeningToThinking ==
    (Len(batches') = Len(batches) + 1 /\ mode = "LISTENING") =>
        /\ mode' = "THINKING"
        /\ LET bt == batches'[Len(batches')] IN
           bt.idx <= Len(bt.calls) => bt.passed = bt.calls[bt.idx].args
SuccessAnswered ==
    \A b \in 1..MaxCalls : ToolComplete(b, "value") =>
        LET c == batches[b].calls[batches[b].idx]
            a == toolLog'[Len(toolLog) + 1]
        IN a.id = c.id /\ a.name = c.name /\ a.sess = batches[b].sess
           /\ a.kind = "result"
C11_BatchSetsThinking == [][ListeningToThinking /\ SuccessAnswered]_vars
\* an image generated for a call that arrived in LISTENING
C11_Witness ==
    /\ mode = "THINKING"
    /\ Len(batches) = 1
    /\ Len(toolLog) = 1
    /\ toolLog[1].text = "Okay, I've sent over the image."
    /\ tornDown = {}

\* C12: when the session was closed while a capability was in flight, the
\* return of the capability sends no tool response.
C12_NoAnswerAfterClose ==
    [][\A b \in DOMAIN batches :
         (batches'[b].idx # batches[b].idx /\ sess[batches[b].sess] # "open")
            => toolLog' = toolLog]_vars

\* C13: in every disconnect the capture callback is detached, then the
\* microphone source and stream are released, then the noise generator is
\* stopped, then the output context is closed, and the transport's close()
\* runs after all of these.
Rank(x) ==
    CASE x = "detach" -> 1 [] x = "source" -> 2 [] x = "stream" -> 3
      [] x = "noise" -> 4 [] x = "context" -> 5 [] x = "close" -> 6
InOrder(steps) ==
    \A i, j \in DOMAIN steps : i < j => Rank(steps[i]) < Rank(steps[j])
NoUsableValue(c) ==
    \/ c.name \notin AsyncTools \cup ImageTools \cup SyncTools
    \/ Throws(c)
    \/ c.name \in ImageTools /\ c.env = "none"
    \/ c.name = "edit_text_message" /\ (c.env = "none" \/ c.args = "missing")
FailureAnswered ==
    \A n \in (DOMAIN toolLog') \ (DOMAIN toolLog) :
        LET a == toolLog'[n]
            c == CallsOf(batches')[a.id]
        IN (\/ NoUsableValue(c)
            \/ n = Len(toolLog) + 1 /\ \E b \in 1..MaxCalls : ToolComplete(b, "null"))
           => /\ a.kind = "error" /\ a.text # ""
              /\ sess' = sess /\ connected' = connected
C14_FailureGivesError == [][FailureAnswered]_vars
\* an edit that returned no image, answered on a session that stays open
C14_Witness ==
    /\ Len(toolLog) = 1
    /\ toolLog[1].text = "Failed to edit image."
    /\ sess[toolLog[1].sess] = "open"
    /\ connected

\* C15: no capability is called with a required argument missing.
C15_RequiredArgsPresent ==
    \A b \in DOMAIN batches : batches[b].passed # "missing"

\* C16: for every sample s in [-1, 1], decoding the 16-bit value that encoding
\* s produces gives a value within 1/32768 of s.
C16_RoundTripWithinQuantum ==
    \A i \in DOMAIN channelData :
        Abs(channelData[i] * SampleDen - inputData[i] * Int16Scale) <= SampleDen

\* C17: while a session is started a background-noise generator is running,
\* whatever the phone-filter setting, and after teardown none is.
C17_NoiseWhileConnected ==
    /\ connected => bgNoiseRef
    /\ ~connected => ~bgNoiseRef

\* C18: each buffer is routed by the phone-filter setting as it is when the
\* buffer's graph is built: through the filter chain when it is on, directly
\* to the output when it is off.
C18_FilterReadPerBuffer ==
    [][Len(slots') = Len(slots) + 1 =>
        slots'[Len(slots')].filtered = callFilterEnabled]_vars

\* C19: every value published as the volume lies in [0, 1].
C19_VolumeInUnitRange == 0 <= volumeSq.num /\ volumeSq.num <= volumeSq.den

\* C20: an ended event of a slot while a later slot has not finished playing
\* does not set the mode to LISTENING.
C20_OnlyLastSlotDrains ==
    [][\A i \in DOMAIN slots :
         (/\ i \in DOMAIN slots'
          /\ ~slots[i].done /\ slots'[i].done
          /\ \E j \in DOMAIN slots : j > i /\ ctxTime < slots[j].end)
            => mode' = mode]_vars

\* C21: a buffer that arrives on an open session when no slot is still
\* unfinished starts at the current time of the output clock; so does the
\* first buffer of a session opened after an earlier one was disconnected.
C21_IdleBufferStartsNow ==
    [][Len(slots') = Len(slots) + 1 =>
        LET n == slots'[Len(slots')] IN
        (/\ sess[n.sess] = "open"
         /\ \A i \in DOMAIN slots : ctxTime >= slots[i].end)
          => n.start = ctxTime]_vars

\* C22: the mode is LISTENING, THINKING or SPEAKING only while the session's
\* connection has opened and not closed, and it is IDLE only while no
\* connection is open and no capture callback is installed.
C22_IdleIffNoConnection ==
    /\ mode \in {"LISTENING", "THINKING", "SPEAKING"} =>
          sessionRef # 0 /\ sess[sessionRef] = "open"
    /\ mode = "IDLE" => (Open = {} /\ handler = {})

\* C23: nextAvailable never decreases, and only the step that schedules a
\* newly arrived buffer changes it: connect, disconnect, capture frames, tool
\* dispatch and playback-ended events leave it as it is.
C23_OnlySchedulerAdvances ==
    [][/\ nextStartTimeRef' >= nextStartTimeRef
       /\ nextStartTimeRef' # nextStartTimeRef =>
            \E s \in Sessions, d \in 1..MaxDur : OnMessageAudio(s, d)]_vars
\* the scheduler has advanced to 200 ms; a capture frame, a tool call and a
\* disconnect have run and have left it there
C23_Witness ==
    /\ nextStartTimeRef >= 2
    /\ tornDown # {}
    /\ frameLog # {}
    /\ batches # << >>
    /\ audioContextRef = 0

\* C24: while a capability invoked for a tool-call batch of a session has not
\* returned, an audio chunk that arrives on the session is decoded and
\* scheduled at once: the message is handled (as far as the bounds on the
\* slots and the clock admit one more buffer), and handling it appends the slot
\* at max(now, nextAvailable) and leaves the batch suspended where it is.
Admits(d) ==
    Len(slots) < MaxSlots /\ Max(ctxTime, nextStartTimeRef) + d <= MaxTime
AudioAccepted ==
    \A s \in Sessions, d \in 1..MaxDur :
        (Pending(s) /\ sess[s] = "open" /\ audioContextRef # 0 /\ Admits(d))
            => ENABLED OnMessageAudio(s, d)
AudioScheduled ==
    \A s \in Sessions, d \in 1..MaxDur :
        (OnMessageAudio(s, d) /\ Pending(s) /\ audioContextRef # 0) =>
            /\ Len(slots') = Len(slots) + 1
            /\ slots'[Len(slots')].start = Max(ctxTime, nextStartTimeRef)
            /\ batches' = batches /\ toolLog' = toolLog
C24_AudioNotStalled == []AudioAccepted /\ [][AudioScheduled]_vars
\* a buffer scheduled after the batch arrived, whose capability returns later
C24_Witness ==
    /\ Len(batches) = 1 /\ batches[1].idx = 1 /\ toolLog = << >>
    /\ Len(slots) = 1 /\ slots[1].sess = batches[1].sess
    /\ mode = "SPEAKING"
    /\ sess[batches[1].sess] = "open"

\* C25: the frames of a session reach sendRealtimeInput in the order they
\* were captured, those captured before the session promise resolved included.
C25_FramesInCaptureOrder ==
    \A i, j \in DOMAIN sent :
        (i < j /\ sent[i].sess = sent[j].sess) => sent[i].n < sent[j].n
\* two frames that waited for the promise and two captured after it resolved
C25_Witness ==
    /\ Len(sent) = 4
    /\ sent[1].early /\ sent[2].early /\ ~sent[3].early /\ ~sent[4].early
    /\ sent[1].sess = sent[4].sess

\* C26: the capture loop does not write the volume while the mode is
\* SPEAKING, and no output-analysis tick writes it while the mode is LISTENING.
C26_OneVolumeWriterPerPhase ==
    [][/\ (\E s \in Sessions, frame \in PhaseFrames : CaptureVolume(s, frame))
            => mode # "SPEAKING"
       /\ (\E i \in 1..MaxSlots, level \in PhaseLevels : OutputVolume(i, level))
            => mode # "LISTENING"]_vars

\* C27: a close or error event of a session that was disconnected (its
\* transport closing, its capture callback gone) before a later session was
\* started leaves the later session's mode, capture
\* callback, noise generator and output context as they are.
C27_StaleCloseSparesNewSession ==
    [][\A s \in Sessions :
         (/\ OnClose(s) \/ OnError(s)
          /\ s \in tornDown /\ sess[s] = "closing" /\ s \notin handler
          /\ \E r \in Sessions : r > s /\ sess[r] # "none" /\ r \notin tornDown)
            => /\ mode' = mode
               /\ handler' = handler
               /\ bgNoiseRef' = bgNoiseRef
               /\ audioContextRef' = audioContextRef]_vars

\* C28: once teardown has set the mode to IDLE, with no session left open
\* and no capture callback attached, only a connect takes the mode out of
\* IDLE: no ended event, inbound message or tool completion of a torn-down
\* session does.
C28_IdleUntilConnect ==
    [][(mode = "IDLE" /\ Open = {} /\ handler = {} /\ mode' # "IDLE")
        => Connect(MaxSessions)]_vars

\* C29: the calls of one batch are processed one after another in batch
\* order: when the capability of call k is invoked, every earlier call of the
\* batch has been answered and no later one has, and the answers of a batch
\* are sent in the order of its calls.
AnsweredUpTo(b) ==
    \A k \in DOMAIN batches[b].calls :
        (AnswersOf(batches[b].calls[k].id) # {}) <=> (k < batches[b].idx)
AnswersInCallOrder ==
    \A n, m \in DOMAIN toolLog : \A b \in DOMAIN batches :
        \A k, l \in DOMAIN batches[b].calls :
            (/\ n < m
             /\ toolLog[n].id = batches[b].calls[k].id
             /\ toolLog[m].id = batches[b].calls[l].id) => k < l
C29_BatchInCallOrder ==
    (\A b \in DOMAIN batches : AnsweredUpTo(b)) /\ AnswersInCallOrder
\* a batch of two calls that both suspended, answered one after the other
C29_Witness ==
    /\ Len(batches) = 1
    /\ Len(batches[1].calls) = 2
    /\ Len(toolLog) = 2
    /\ toolLog[1].id = 1 /\ toolLog[1].text = "Okay, I've sent over the image."
    /\ toolLog[2].id = 2 /\ toolLog[2].text = "Failed to generate image."

\* C30: an edit_text_message call whose id was returned by a
\* send_text_response call before it, in an earlier batch or in its own, is
\* answered with a success result, and the message has the new content.
SendsBefore(j) ==
    Cardinality({ k \in 1..(j - 1) : Received[k].name = "send_text_response" })
C30_ReturnedIdEditable ==
    \A j \in DOMAIN Received :
        LET c == Received[j] IN
        (c.name = "edit_text_message" /\ c.target <= SendsBefore(j)) =>
            /\ \A n \in AnswersOf(c.id) : toolLog[n].kind = "result"
            /\ inbox[c.target] = "edited"

====
